---- MODULE Spec2Model ----
(***************************************************************************)
(* Usage governance of the analytics-agent backend:                        *)
(*   app/agents/rate_limits.py  ConversationTracker and its ceilings       *)
(*   app/auth.py                identity classification, windowed IP quota *)
(*   app/api/routes.py          GET /usage and POST /chat                  *)
(*   app/agents/orchestrator.py run_orchestrator, the agent pipeline       *)
(*                                                                         *)
(* Python dicts are functions whose DOMAIN is the set of keys present.     *)
(* Exceptions are strings naming the exception class, "None" = no raise.   *)
(* The clock counts half hours, so timedelta(hours=1) is two ticks.        *)
(***************************************************************************)
EXTENDS Integers, Sequences, FiniteSets, TLC

\* ------------------------------------------------------------------ bounds
\* Longest sequence of add_usage calls applied to the stand-alone tracker.
MaxSamples == 3
\* Last clock tick.
MaxTime == 3
\* Most LLM requests ever reported for one registered conversation.
MaxReported == 15
\* Most queries ever passed to db_client.execute.
MaxExecuted == 2
MaxRequests == 7

\* --------------------------------------------------------------- constants
\* rate_limits.py: ConversationLimits
MAX_REQUESTS == 10
MAX_TOKENS == 150000
MAX_TOOL_CALLS == 15

\* auth.py: DEMO_LIMITS
queries_per_hour == 6
tokens_per_query == 20000

\* auth.py: timedelta(hours=1), in clock ticks
HOUR == 2

\* --------------------------------------------------------- dict primitives
\* d.get(k, default)
DictGet(d, k, default) == IF k \in DOMAIN d THEN d[k] ELSE default

\* d[k] = v
DictSet(d, k, v) == [x \in (DOMAIN d) \cup {k} |-> IF x = k THEN v ELSE d[x]]

\* {}
EmptyDict == [x \in {} |-> 0]

\* ------------------------------------------------------- ConversationTracker
\* ConversationTracker.__init__
ConversationTracker ==
    [total_requests |-> 0, total_tokens |-> 0, total_tool_calls |-> 0]

\* add_usage with "=" in place of "+=" on the token total.
add_usage_overwrite(self, usage_info) ==
    [total_requests   |-> self.total_requests + DictGet(usage_info, "requests", 0),
     total_tokens     |-> DictGet(usage_info, "tokens", 0),
     total_tool_calls |-> self.total_tool_calls + DictGet(usage_info, "tool_calls", 0)]

\* add_usage with "-=" in place of "+=" on the tool-call total.
add_usage_subtract(self, usage_info) ==
    [total_requests   |-> self.total_requests + DictGet(usage_info, "requests", 0),
     total_tokens     |-> self.total_tokens + DictGet(usage_info, "tokens", 0),
     total_tool_calls |-> self.total_tool_calls - DictGet(usage_info, "tool_calls", 0)]

\* ConversationTracker.add_usage
add_usage(self, usage_info) ==
    [total_requests   |-> self.total_requests + DictGet(usage_info, "requests", 0),
     total_tokens     |-> self.total_tokens + DictGet(usage_info, "tokens", 0),
     total_tool_calls |-> self.total_tool_calls + DictGet(usage_info, "tool_calls", 0)]

\* check_limits with "exceeds" (>) in place of "at or above" (>=).
check_limits_strict(self) ==
    IF self.total_requests > MAX_REQUESTS THEN "request limit exceeded"
    ELSE IF self.total_tokens > MAX_TOKENS THEN "token limit exceeded"
    ELSE IF self.total_tool_calls > MAX_TOOL_CALLS THEN "tool call limit exceeded"
    ELSE "None"

\* check_limits with the three tests in the opposite order.
check_limits_tool_calls_first(self) ==
    IF self.total_tool_calls >= MAX_TOOL_CALLS THEN "tool call limit exceeded"
    ELSE IF self.total_tokens >= MAX_TOKENS THEN "token limit exceeded"
    ELSE IF self.total_requests >= MAX_REQUESTS THEN "request limit exceeded"
    ELSE "None"

\* ConversationTracker.check_limits: the RateLimitError message raised, or
\* "None" when the call returns.
check_limits(self) ==
    IF self.total_requests >= MAX_REQUESTS THEN "request limit exceeded"
    ELSE IF self.total_tokens >= MAX_TOKENS THEN "token limit exceeded"
    ELSE IF self.total_tool_calls >= MAX_TOOL_CALLS THEN "tool call limit exceeded"
    ELSE "None"

\* get_usage_summary with "remaining" floored at zero.
get_usage_summary_clamped(self) ==
    LET left(limit, used) == IF limit - used < 0 THEN 0 ELSE limit - used
    IN  [requests   |-> [used |-> self.total_requests,
                         limit |-> MAX_REQUESTS,
                         remaining |-> left(MAX_REQUESTS, self.total_requests)],
         tokens     |-> [used |-> self.total_tokens,
                         limit |-> MAX_TOKENS,
                         remaining |-> left(MAX_TOKENS, self.total_tokens)],
         tool_calls |-> [used |-> self.total_tool_calls,
                         limit |-> MAX_TOOL_CALLS,
                         remaining |-> left(MAX_TOOL_CALLS, self.total_tool_calls)]]

\* ConversationTracker.get_usage_summary
get_usage_summary(self) ==
    [requests   |-> [used |-> self.total_requests,
                     limit |-> MAX_REQUESTS,
                     remaining |-> MAX_REQUESTS - self.total_requests],
     tokens     |-> [used |-> self.total_tokens,
                     limit |-> MAX_TOKENS,
                     remaining |-> MAX_TOKENS - self.total_tokens],
     tool_calls |-> [used |-> self.total_tool_calls,
                     limit |-> MAX_TOOL_CALLS,
                     remaining |-> MAX_TOOL_CALLS - self.total_tool_calls]]

\* no summary has been asked for
NoSummary ==
    [requests   |-> [used |-> -1, limit |-> -1, remaining |-> -1],
     tokens     |-> [used |-> -1, limit |-> -1, remaining |-> -1],
     tool_calls |-> [used |-> -1, limit |-> -1, remaining |-> -1]]

\* ---------------------------------------------------------------- samples
\* usage_info dictionaries handed to add_usage; keys may be missing.
UsageSamples ==
    { [requests |-> 5, tokens |-> 75000, tool_calls |-> 7],
      [requests |-> 4, tokens |-> 74999, tool_calls |-> 8],
      [requests |-> 5],
      [tokens |-> 75000],
      [tool_calls |-> 8, requests |-> 1],
      EmptyDict }


\* ------------------------------------------------------------ Python values
\* None, in a slot that otherwise holds a string
None == "<None>"

\* bool(s) for an optional string: None and "" are falsy
Truthy(s) == s \notin {None, ""}

\* s.startswith(prefix)
startswith(s, prefix) ==
    Len(s) >= Len(prefix) /\ SubSeq(s, 1, Len(prefix)) = prefix

\* ------------------------------------------------------------------ auth.py
\* f"Bearer {settings.admin_api_key}": the configured trusted secret, as the
\* Authorization value that presents it.
bearer_admin_api_key == "Bearer admin-secret"

\* User.__init__
User(is_admin, ip_address) ==
    [is_admin |-> is_admin, ip_address |-> ip_address,
     tier |-> IF is_admin THEN "admin" ELSE "demo"]

\* no User was built (get_current_user raised)
NoUser == [is_admin |-> FALSE, ip_address |-> None, tier |-> None]

\* the value of a call that raised
NoUsageInfo ==
    [queries_used |-> -1, queries_remaining |-> -1, tokens_per_query_limit |-> -1]

\* check_ip_rate_limit with the pruned list computed but never stored and
\* never counted: the limit is taken over every timestamp ever recorded.
check_ip_rate_limit_no_prune(usage, ip_address, t) ==
    LET u1 == IF ip_address \notin DOMAIN usage
              THEN DictSet(usage, ip_address, [queries |-> <<>>, first_seen |-> t])
              ELSE usage
        queries_this_hour == Len(u1[ip_address].queries)
    IN  IF queries_this_hour >= queries_per_hour
        THEN [exc |-> "DemoLimitError", usage |-> u1, ret |-> NoUsageInfo]
        ELSE [exc |-> "None", usage |-> u1,
              ret |-> [queries_used |-> queries_this_hour,
                       queries_remaining |-> queries_per_hour - queries_this_hour,
                       tokens_per_query_limit |-> tokens_per_query]]

\* check_ip_rate_limit without the raise: an origin over its quota gets a
\* report with nothing remaining.
check_ip_rate_limit_no_raise(usage, ip_address, t) ==
    LET hour_ago == t - HOUR
        u1 == IF ip_address \notin DOMAIN usage
              THEN DictSet(usage, ip_address, [queries |-> <<>>, first_seen |-> t])
              ELSE usage
        kept == SelectSeq(u1[ip_address].queries, LAMBDA q: q > hour_ago)
        u2 == [u1 EXCEPT ![ip_address].queries = kept]
        queries_this_hour == Len(kept)
    IN  [exc |-> "None", usage |-> u2,
         ret |-> [queries_used |-> queries_this_hour,
                  queries_remaining |-> queries_per_hour - queries_this_hour,
                  tokens_per_query_limit |-> tokens_per_query]]

\* check_ip_rate_limit pruning the list of every origin on record, not only
\* the caller's.
check_ip_rate_limit_prunes_all(usage, ip_address, t) ==
    LET hour_ago == t - HOUR
        u1 == IF ip_address \notin DOMAIN usage
              THEN DictSet(usage, ip_address, [queries |-> <<>>, first_seen |-> t])
              ELSE usage
        u2 == [ip \in DOMAIN u1 |->
                 [u1[ip] EXCEPT !.queries = SelectSeq(@, LAMBDA q: q > hour_ago)]]
        queries_this_hour == Len(u2[ip_address].queries)
    IN  IF queries_this_hour >= queries_per_hour
        THEN [exc |-> "DemoLimitError", usage |-> u2, ret |-> NoUsageInfo]
        ELSE [exc |-> "None", usage |-> u2,
              ret |-> [queries_used |-> queries_this_hour,
                       queries_remaining |-> queries_per_hour - queries_this_hour,
                       tokens_per_query_limit |-> tokens_per_query]]

\* check_ip_rate_limit keeping the timestamps at or after hour_ago (">=" in
\* place of ">").
check_ip_rate_limit_inclusive(usage, ip_address, t) ==
    LET hour_ago == t - HOUR
        u1 == IF ip_address \notin DOMAIN usage
              THEN DictSet(usage, ip_address, [queries |-> <<>>, first_seen |-> t])
              ELSE usage
        kept == SelectSeq(u1[ip_address].queries, LAMBDA q: q >= hour_ago)
        u2 == [u1 EXCEPT ![ip_address].queries = kept]
        queries_this_hour == Len(kept)
    IN  IF queries_this_hour >= queries_per_hour
        THEN [exc |-> "DemoLimitError", usage |-> u2, ret |-> NoUsageInfo]
        ELSE [exc |-> "None", usage |-> u2,
              ret |-> [queries_used |-> queries_this_hour,
                       queries_remaining |-> queries_per_hour - queries_this_hour,
                       tokens_per_query_limit |-> tokens_per_query]]

\* check_ip_rate_limit over fixed one-hour buckets that start when the origin
\* was first seen: only the timestamps of the current bucket are kept.
check_ip_rate_limit_fixed_bucket(usage, ip_address, t) ==
    LET u1 == IF ip_address \notin DOMAIN usage
              THEN DictSet(usage, ip_address, [queries |-> <<>>, first_seen |-> t])
              ELSE usage
        first_seen == u1[ip_address].first_seen
        bucket_start == first_seen + HOUR * ((t - first_seen) \div HOUR)
        kept == SelectSeq(u1[ip_address].queries, LAMBDA q: q >= bucket_start)
        u2 == [u1 EXCEPT ![ip_address].queries = kept]
        queries_this_hour == Len(kept)
    IN  IF queries_this_hour >= queries_per_hour
        THEN [exc |-> "DemoLimitError", usage |-> u2, ret |-> NoUsageInfo]
        ELSE [exc |-> "None", usage |-> u2,
              ret |-> [queries_used |-> queries_this_hour,
                       queries_remaining |-> queries_per_hour - queries_this_hour,
                       tokens_per_query_limit |-> tokens_per_query]]

\* check_ip_rate_limit(ip_address) at time t: the exception raised ("None" when
\* it returns), the value returned and _ip_usage as the call leaves it.  The
\* entry is created and pruned before the limit is tested, so both survive a
\* raise.
check_ip_rate_limit(usage, ip_address, t) ==
    LET hour_ago == t - HOUR
        u1 == IF ip_address \notin DOMAIN usage
              THEN DictSet(usage, ip_address, [queries |-> <<>>, first_seen |-> t])
              ELSE usage
        kept == SelectSeq(u1[ip_address].queries, LAMBDA q: q > hour_ago)
        u2 == [u1 EXCEPT ![ip_address].queries = kept]
        queries_this_hour == Len(kept)
    IN  IF queries_this_hour >= queries_per_hour
        THEN [exc |-> "DemoLimitError", usage |-> u2, ret |-> NoUsageInfo]
        ELSE [exc |-> "None", usage |-> u2,
              ret |-> [queries_used |-> queries_this_hour,
                       queries_remaining |-> queries_per_hour - queries_this_hour,
                       tokens_per_query_limit |-> tokens_per_query]]

\* record_ip_query appending the timestamp twice.
record_ip_query_twice(usage, ip_address, t) ==
    LET u1 == IF ip_address \notin DOMAIN usage
              THEN DictSet(usage, ip_address, [queries |-> <<>>, first_seen |-> t])
              ELSE usage
    IN  [u1 EXCEPT ![ip_address].queries = Append(Append(@, t), t)]

\* record_ip_query(ip_address) at time t: _ip_usage as the call leaves it
record_ip_query(usage, ip_address, t) ==
    LET u1 == IF ip_address \notin DOMAIN usage
              THEN DictSet(usage, ip_address, [queries |-> <<>>, first_seen |-> t])
              ELSE usage
    IN  [u1 EXCEPT ![ip_address].queries = Append(@, t)]

\* request.client.host if request.client else "unknown"
client_ip(client) == IF client # None THEN client ELSE "unknown"

\* get_current_user with the quota check made before the credential is looked
\* at.
get_current_user_quota_first(authorization, client, usage, t) ==
    LET chk == check_ip_rate_limit(usage, client_ip(client), t)
    IN  IF chk.exc # "None"
        THEN [exc |-> chk.exc, status_code |-> 0, user |-> NoUser, usage |-> chk.usage]
        ELSE IF Truthy(authorization)
        THEN IF authorization = bearer_admin_api_key
             THEN [exc |-> "None", status_code |-> 0,
                   user |-> User(TRUE, None), usage |-> chk.usage]
             ELSE [exc |-> "HTTPException", status_code |-> 401,
                   user |-> NoUser, usage |-> chk.usage]
        ELSE [exc |-> "None", status_code |-> 0,
              user |-> User(FALSE, client_ip(client)), usage |-> chk.usage]

\* get_current_user with a non-matching credential falling through to demo
\* mode instead of raising.
get_current_user_downgrade(authorization, client, usage, t) ==
    IF Truthy(authorization) /\ authorization = bearer_admin_api_key
    THEN [exc |-> "None", status_code |-> 0, user |-> User(TRUE, None), usage |-> usage]
    ELSE LET chk == check_ip_rate_limit(usage, client_ip(client), t)
         IN  IF chk.exc # "None"
             THEN [exc |-> chk.exc, status_code |-> 0, user |-> NoUser, usage |-> chk.usage]
             ELSE [exc |-> "None", status_code |-> 0,
                   user |-> User(FALSE, client_ip(client)), usage |-> chk.usage]

\* get_current_user(request, authorization) at time t: the exception raised
\* (with its status_code when it is an HTTPException), the User returned and
\* _ip_usage as the call leaves it.
get_current_user(authorization, client, usage, t) ==
    IF Truthy(authorization)
    THEN IF authorization = bearer_admin_api_key
         THEN [exc |-> "None", status_code |-> 0,
               user |-> User(TRUE, None), usage |-> usage]
         ELSE [exc |-> "HTTPException", status_code |-> 401,
               user |-> NoUser, usage |-> usage]
    ELSE LET chk == check_ip_rate_limit(usage, client_ip(client), t)
         IN  IF chk.exc # "None"
             THEN [exc |-> chk.exc, status_code |-> 0, user |-> NoUser, usage |-> chk.usage]
             ELSE [exc |-> "None", status_code |-> 0,
                   user |-> User(FALSE, client_ip(client)), usage |-> chk.usage]

\* get_usage_info_for_ip reporting, for an origin over its quota, the number
\* of timestamps actually stored instead of the limit.
get_usage_info_for_ip_counts(usage, ip_address, t) ==
    LET chk == check_ip_rate_limit(usage, ip_address, t)
        stored == Len(chk.usage[ip_address].queries)
    IN  [usage |-> chk.usage,
         ret |-> [tier |-> "demo",
                  queries_used |-> stored,
                  queries_remaining |-> queries_per_hour - stored,
                  queries_limit |-> queries_per_hour,
                  tokens_per_query_limit |-> tokens_per_query,
                  reset_in_minutes |-> 60]]

\* get_usage_info_for_ip(ip_address) at time t: the dict returned and _ip_usage
\* as the call leaves it
get_usage_info_for_ip(usage, ip_address, t) ==
    LET chk == check_ip_rate_limit(usage, ip_address, t)
    IN  IF chk.exc = "None"
        THEN [usage |-> chk.usage,
              ret |-> [tier |-> "demo",
                       queries_used |-> chk.ret.queries_used,
                       queries_remaining |-> chk.ret.queries_remaining,
                       queries_limit |-> queries_per_hour,
                       tokens_per_query_limit |-> tokens_per_query,
                       reset_in_minutes |-> 60]]
        ELSE [usage |-> chk.usage,
              ret |-> [tier |-> "demo",
                       queries_used |-> queries_per_hour,
                       queries_remaining |-> 0,
                       queries_limit |-> queries_per_hour,
                       tokens_per_query_limit |-> tokens_per_query,
                       reset_in_minutes |-> 60]]

\* ----------------------------------------------------------- orchestrator.py
\* await run_orchestrator(...): "None" when it returns an OrchestratorResponse,
\* else the class of what it raises.  It takes (user_question, db_client,
\* conversation_history), holds no ConversationTracker, and imports neither
\* RateLimitError nor DemoLimitError, so whatever it raises reaches chat's
\* last except clause.
run_orchestrator_raises == {"None", "Exception"}

\* ------------------------------------------------------------ api/routes.py
\* An HTTP response; the fields a handler does not set are None / -1.
Response(status, detail) ==
    [status |-> status, detail |-> detail, tier |-> None,
     queries_used |-> -1, queries_remaining |-> -1, conversation_id |-> None]

NoResponse == Response(0, None)

\* What the framework answers when an exception leaves a dependency or a
\* handler: an HTTPException carries its status, anything else is a 500
\* (main.py registers no exception handler).
unhandled(exc, status_code, detail) ==
    IF exc = "HTTPException" THEN Response(status_code, detail)
    ELSE Response(500, "Internal Server Error")

\* str(e) / detail of the exceptions raised in this program
message(exc) ==
    CASE exc = "DemoLimitError" -> "Demo limit reached"
      [] exc = "RateLimitError" -> "Conversation limit exceeded"
      [] exc = "HTTPException" -> "Invalid API key"
      [] OTHER -> "pipeline failure"

\* get_usage(request, user) at time t: the body returned and _ip_usage as the
\* call leaves it
get_usage(user, usage, t) ==
    IF user.is_admin
    THEN [usage |-> usage,
          ret |-> [Response(200, None) EXCEPT !.tier = "admin"]]
    ELSE LET info == get_usage_info_for_ip(usage, user.ip_address, t)
         IN  [usage |-> info.usage,
              ret |-> [Response(200, None) EXCEPT
                         !.tier = info.ret.tier,
                         !.queries_used = info.ret.queries_used,
                         !.queries_remaining = info.ret.queries_remaining]]

\* uuid4().hex[:12]
uuid4_hex12 == {"0f1e2d3c4b5a"}

\* f"conv-{uuid4().hex[:12]}"
GeneratedIds == {"conv-" \o h : h \in uuid4_hex12}

\* tracker = None
NoTracker == 0

\* The identity of the ConversationTracker object stored under a conversation
\* id: objects are numbered in the order chat built them, and the one stored
\* is the last one built for that id (it is stored by the statement that
\* builds it).
tracker_id(built, conversation_id) ==
    LET S == {i \in 1..Len(built) : built[i] = conversation_id}
    IN  IF S = {} THEN NoTracker ELSE CHOOSE i \in S : \A j \in S : j <= i

\* chat_get_tracker without the membership test: a demo request always builds
\* a tracker and stores it under its conversation id.
chat_get_tracker_always_new(trackers, built, user, conversation_id) ==
    IF user.is_admin
    THEN [trackers |-> trackers, constructed |-> built, tracker |-> NoTracker]
    ELSE LET b1 == Append(built, conversation_id)
         IN  [trackers |-> DictSet(trackers, conversation_id, ConversationTracker),
              constructed |-> b1,
              tracker |-> tracker_id(b1, conversation_id)]

\* chat_get_tracker without the "not user.is_admin" test: every caller gets a
\* tracker.
chat_get_tracker_everyone(trackers, built, user, conversation_id) ==
    LET new == conversation_id \notin DOMAIN trackers
        t1 == IF new THEN DictSet(trackers, conversation_id, ConversationTracker)
              ELSE trackers
        b1 == IF new THEN Append(built, conversation_id) ELSE built
    IN  [trackers |-> t1, constructed |-> b1,
         tracker |-> tracker_id(b1, conversation_id)]

\* chat_get_tracker handing every conversation the first tracker ever built,
\* whatever its id.
chat_get_tracker_shared(trackers, built, user, conversation_id) ==
    IF user.is_admin
    THEN [trackers |-> trackers, constructed |-> built, tracker |-> NoTracker]
    ELSE [trackers |-> IF conversation_id \notin DOMAIN trackers
                       THEN DictSet(trackers, conversation_id, ConversationTracker)
                       ELSE trackers,
          constructed |-> IF built = <<>> THEN <<conversation_id>> ELSE built,
          tracker |-> 1]

\* chat, first part: get or create the conversation's tracker (demo users
\* only): _conversation_trackers and the list of trackers built as they are
\* when run_orchestrator is called, and the tracker chat holds.
chat_get_tracker(trackers, built, user, conversation_id) ==
    IF user.is_admin
    THEN [trackers |-> trackers, constructed |-> built, tracker |-> NoTracker]
    ELSE LET new == conversation_id \notin DOMAIN trackers
             t1 == IF new THEN DictSet(trackers, conversation_id, ConversationTracker)
                   ELSE trackers
             b1 == IF new THEN Append(built, conversation_id) ELSE built
         IN  [trackers |-> t1, constructed |-> b1,
              tracker |-> tracker_id(b1, conversation_id)]

\* chat's handling of the pipeline outcome, with the query recorded whether or
\* not run_orchestrator raised.
chat_record_always(usage, user, exc, t) ==
    IF ~user.is_admin /\ Truthy(user.ip_address)
    THEN record_ip_query(usage, user.ip_address, t)
    ELSE usage

\* chat, after the await: _ip_usage as the handler leaves it.  The query is
\* recorded only on the path where run_orchestrator returned.
chat_record(usage, user, exc, t) ==
    IF exc = "None" /\ ~user.is_admin /\ Truthy(user.ip_address)
    THEN record_ip_query(usage, user.ip_address, t)
    ELSE usage

\* chat's except clauses with "except Exception" tried first: every exception
\* becomes a 500.
chat_except_generic_first(exc) ==
    Response(500, message(exc))

\* chat's except clauses: the response for an exception raised inside its try
chat_except(exc) ==
    IF exc = "DemoLimitError" THEN Response(429, message(exc))
    ELSE IF exc = "RateLimitError" THEN Response(429, message(exc))
    ELSE Response(500, message(exc))

\* chat's return value with an id made up for the response in place of the
\* one chat worked with.
ChatResponse_fresh_id(conversation_id) ==
    [Response(200, None) EXCEPT !.conversation_id = "conv-" \o "ffffffffffff"]

\* chat's return value
ChatResponse(conversation_id) ==
    [Response(200, None) EXCEPT !.conversation_id = conversation_id]

\* ------------------------------------------------------------ Python strings
\* the characters str.strip() removes
Whitespace == {" ", "\t", "\n", "\r"}

\* s.lstrip()
RECURSIVE lstrip(_)
lstrip(s) ==
    IF Len(s) > 0 /\ SubSeq(s, 1, 1) \in Whitespace
    THEN lstrip(SubSeq(s, 2, Len(s)))
    ELSE s

\* s.rstrip()
RECURSIVE rstrip(_)
rstrip(s) ==
    IF Len(s) > 0 /\ SubSeq(s, Len(s), Len(s)) \in Whitespace
    THEN rstrip(SubSeq(s, 1, Len(s) - 1))
    ELSE s

\* s.strip()
strip(s) == rstrip(lstrip(s))

ascii_lowercase == "abcdefghijklmnopqrstuvwxyz"
ascii_uppercase == "ABCDEFGHIJKLMNOPQRSTUVWXYZ"

\* c.upper() for a single character
upper_char(c) ==
    LET I == {i \in 1..Len(ascii_lowercase) : SubSeq(ascii_lowercase, i, i) = c}
    IN  IF I = {} THEN c
        ELSE LET i == CHOOSE j \in I : TRUE IN SubSeq(ascii_uppercase, i, i)

\* s.upper()
RECURSIVE upper(_)
upper(s) ==
    IF Len(s) = 0 THEN s
    ELSE upper_char(SubSeq(s, 1, 1)) \o upper(SubSeq(s, 2, Len(s)))

\* keyword in s
contains(s, keyword) ==
    \E i \in 1..(Len(s) - Len(keyword) + 1) :
        SubSeq(s, i, i + Len(keyword) - 1) = keyword

\* ------------------------------------------------------------ agents/tools.py
\* what execute_sql_query returns: a QueryResult or a QueryError, the fields
\* the other class has being None / -1 / empty
QueryResult(sql_query, rows_returned, results, columns) ==
    [class |-> "QueryResult", sql_query |-> sql_query,
     rows_returned |-> rows_returned, results |-> results, columns |-> columns,
     error_message |-> None, error_type |-> None]

QueryError(sql_query, error_message, error_type) ==
    [class |-> "QueryError", sql_query |-> sql_query,
     rows_returned |-> -1, results |-> <<>>, columns |-> <<>>,
     error_message |-> error_message, error_type |-> error_type]

\* nothing returned (no call yet, or the call raised)
NoQueryReturn ==
    [class |-> None, sql_query |-> None,
     rows_returned |-> -1, results |-> <<>>, columns |-> <<>>,
     error_message |-> None, error_type |-> None]

destructive_keywords ==
    <<"DROP", "DELETE", "TRUNCATE", "INSERT", "UPDATE", "ALTER", "CREATE">>

\* list(results[0].keys()) if results else []: a row is a sequence of
\* <<column, value>> pairs in column order
columns_of(results) ==
    IF Len(results) > 0
    THEN [i \in 1..Len(results[1]) |-> results[1][i][1]]
    ELSE <<>>

\* execute_sql_query without the destructive-keyword test.
execute_sql_query_select_only(sql, db) ==
    LET normalized_sql == upper(strip(sql))
    IN  IF ~startswith(normalized_sql, "SELECT")
        THEN [exc |-> "None", executed |-> <<>>,
              ret |-> QueryError(sql, "Only SELECT queries are allowed", "validation")]
        ELSE IF db.exc # "None"
        THEN [exc |-> "None", executed |-> <<sql>>,
              ret |-> QueryError(sql, db.message, "execution")]
        ELSE [exc |-> "None", executed |-> <<sql>>,
              ret |-> QueryResult(sql, Len(db.rows), db.rows, columns_of(db.rows))]

\* execute_sql_query without the try around db_client.execute: what the
\* database raises leaves the function.
execute_sql_query_no_try(sql, db) ==
    LET normalized_sql == upper(strip(sql))
    IN  IF ~startswith(normalized_sql, "SELECT")
        THEN [exc |-> "None", executed |-> <<>>,
              ret |-> QueryError(sql, "Only SELECT queries are allowed", "validation")]
        ELSE IF \E k \in 1..Len(destructive_keywords) :
                    contains(normalized_sql, destructive_keywords[k])
        THEN [exc |-> "None", executed |-> <<>>,
              ret |-> QueryError(sql, "Query contains disallowed operations", "validation")]
        ELSE IF db.exc # "None"
        THEN [exc |-> db.exc, executed |-> <<sql>>, ret |-> NoQueryReturn]
        ELSE [exc |-> "None", executed |-> <<sql>>,
              ret |-> QueryResult(sql, Len(db.rows), db.rows, columns_of(db.rows))]

\* execute_sql_query(sql, db_client), db being what db_client.execute does when
\* it is called with this query (the rows it returns or the exception it
\* raises): the exception the function raises ("None" when it returns), the
\* value it returns and the queries it passed to db_client.execute.
execute_sql_query(sql, db) ==
    LET normalized_sql == upper(strip(sql))
    IN  IF ~startswith(normalized_sql, "SELECT")
        THEN [exc |-> "None", executed |-> <<>>,
              ret |-> QueryError(sql, "Only SELECT queries are allowed", "validation")]
        ELSE IF \E k \in 1..Len(destructive_keywords) :
                    contains(normalized_sql, destructive_keywords[k])
        THEN [exc |-> "None", executed |-> <<>>,
              ret |-> QueryError(sql, "Query contains disallowed operations", "validation")]
        ELSE IF db.exc # "None"
        THEN [exc |-> "None", executed |-> <<sql>>,
              ret |-> QueryError(sql, db.message, "execution")]
        ELSE [exc |-> "None", executed |-> <<sql>>,
              ret |-> QueryResult(sql, Len(db.rows), db.rows, columns_of(db.rows))]

\* queries handed to execute_sql_query
SqlSamples ==
    { "SELECT 1 as test_column",
      "select name from t",
      "  \n SeLeCt * FROM t \t",
      "SELECT created_at FROM t",
      "SELECT 1; drop table t",
      "DROP TABLE t",
      "INSERT INTO t VALUES (1)",
      "WITH a AS (SELECT 1) SELECT * FROM a",
      "SELECTED",
      "SELEC",
      "",
      "select * from t where note = 'update'",
      "DELETE FROM t",
      "SELECT * FROM nonexistent" }

\* db_client.execute was not called
NoDbCall == [exc |-> "None", message |-> None, rows |-> <<>>]

\* what db_client.execute does with a query: rows, or an exception
DbOutcomes ==
    { [exc |-> "None", message |-> None, rows |-> <<>>],
      [exc |-> "None", message |-> None, rows |-> << <<<<"test_column", 1>>>> >>],
      [exc |-> "None", message |-> None,
       rows |-> << <<<<"name", "a">>, <<"n", 1>>>>, <<<<"name", "b">>, <<"n", 2>>>> >>],
      [exc |-> "Exception", message |-> "Catalog Error", rows |-> <<>>] }

\* ------------------------------------------------------------------ main.py
\* the environment variables sync_motherduck_background reads
EnvNames == {"MOTHERDUCK_DB", "MOTHERDUCK_TOKEN", "MOTHERDUCK_SCHEMA"}

\* os.getenv(key, default): None in environ stands for a variable not set
getenv(environ, key, default) ==
    IF environ[key] = None THEN default ELSE environ[key]

\* settings.duckdb_path
duckdb_path == "../data/analytics.duckdb"

\* sync_motherduck_background up to its await, with "and" in place of "or"
\* in the credential test: it goes on when one credential is there.
sync_motherduck_background_either(environ) ==
    LET motherduck_db == getenv(environ, "MOTHERDUCK_DB", None)
        motherduck_token == getenv(environ, "MOTHERDUCK_TOKEN", None)
    IN  IF ~Truthy(motherduck_db) /\ ~Truthy(motherduck_token)
        THEN [returned |-> TRUE, calls |-> <<>>]
        ELSE [returned |-> FALSE,
              calls |-> << [motherduck_db |-> motherduck_db,
                            motherduck_token |-> motherduck_token,
                            local_db_path |-> duckdb_path,
                            source_schema |->
                                getenv(environ, "MOTHERDUCK_SCHEMA", "dmt")] >>]

\* sync_motherduck_background up to its await: whether it has returned, and
\* the calls of sync_from_motherduck it has handed to asyncio.to_thread
sync_motherduck_background(environ) ==
    LET motherduck_db == getenv(environ, "MOTHERDUCK_DB", None)
        motherduck_token == getenv(environ, "MOTHERDUCK_TOKEN", None)
    IN  IF ~Truthy(motherduck_db) \/ ~Truthy(motherduck_token)
        THEN [returned |-> TRUE, calls |-> <<>>]
        ELSE [returned |-> FALSE,
              calls |-> << [motherduck_db |-> motherduck_db,
                            motherduck_token |-> motherduck_token,
                            local_db_path |-> duckdb_path,
                            source_schema |->
                                getenv(environ, "MOTHERDUCK_SCHEMA", "dmt")] >>]

\* sync_motherduck_background from its await on, the call of
\* sync_from_motherduck having raised thread_exc ("None": returned): what
\* leaves the function, and whether logger.error was called
sync_motherduck_background_except(thread_exc) ==
    [exc |-> "None", logged_error |-> thread_exc # "None"]

\* values given to the environment variables: not set, empty, or a value
EnvValues ==
    [MOTHERDUCK_DB |-> {None, "", "test_db", "my_db"},
     MOTHERDUCK_TOKEN |-> {None, "", "test_token", "token"},
     MOTHERDUCK_SCHEMA |-> {None, "", "test_schema"}]

\* the sync has not been started
IdleSync ==
    [pc |-> "idle", calls |-> <<>>, thread_exc |-> "None", exc |-> "None",
     logged_error |-> FALSE]

\* ------------------------------------------------------------ the agents
\* UsageLimits(request_limit=..., total_tokens_limit=...)
UsageLimits(request_limit, total_tokens_limit) ==
    [request_limit |-> request_limit, total_tokens_limit |-> total_tokens_limit]

ORCHESTRATOR_LIMITS == UsageLimits(6, 50000)
SQL_AGENT_LIMITS == UsageLimits(6, 20000)
VIZ_AGENT_LIMITS == UsageLimits(4, 30000)

\* the three agents
Roles == {"orchestrator", "sql", "viz"}

\* the usage_limits argument of the role's Agent.run call, as a sequence:
\* empty where the call passes none.  orchestrator_agent.run and sql_agent.run
\* are called with the prompt, deps and message_history only.
usage_limits_passed(role) ==
    IF role = "viz" THEN <<VIZ_AGENT_LIMITS>> ELSE <<>>

\* an agent that is not running
IdleRun ==
    [role |-> None, pc |-> "idle", requests |-> 0, total_tokens |-> 0,
     usage_limits |-> <<>>, exc |-> "None"]

\* one request to the model inside Agent.run, answered with a response of
\* `tokens` tokens: the limits passed to the run are checked before the
\* request (requests made against request_limit) and after the response
\* (total tokens against total_tokens_limit); a run with no limits passed is
\* checked against none of this repository's.
model_request(run, tokens) ==
    IF run.usage_limits # <<>>
       /\ run.requests >= run.usage_limits[1].request_limit
    THEN [run EXCEPT !.pc = "done", !.exc = "UsageLimitExceeded"]
    ELSE LET total == run.total_tokens + tokens
         IN  IF run.usage_limits # <<>>
                /\ total > run.usage_limits[1].total_tokens_limit
             THEN [run EXCEPT !.requests = @ + 1, !.total_tokens = total,
                              !.pc = "done", !.exc = "UsageLimitExceeded"]
             ELSE [run EXCEPT !.requests = @ + 1, !.total_tokens = total]

\* str(e) of what a specialist run raised
str_of(exc) ==
    CASE exc = "UsageLimitExceeded" -> "usage limit exceeded"
      [] exc = "Exception" -> "model request failed"
      [] OTHER -> ""

\* outputs of a completed sql_agent run (SQLAgentResponse)
SQLAgentResponses ==
    { [message |-> "I can only answer questions about NBA data",
       sql_query |-> None, data_summary |-> None, results |-> None],
      [message |-> "There are 2 teams",
       sql_query |-> "SELECT * FROM teams", data_summary |-> "2 rows",
       results |-> <<"Lakers", "Celtics">>] }

\* outputs of a completed viz_agent run (VizAgentResponse)
VizAgentResponses ==
    { [message |-> "No chart fits this data",
       chart_spec |-> None, chart_type |-> None],
      [message |-> "Bar chart of teams",
       chart_spec |-> "{data, layout}", chart_type |-> "bar"] }

\* call_sql_agent without its try: the exception leaves the tool
call_sql_agent_no_try(exc, result) ==
    IF exc = "None"
    THEN [exc |-> "None",
          ret |-> [status |-> "success", message |-> result.message,
                   sql_query |-> result.sql_query,
                   data_summary |-> result.data_summary,
                   results |-> result.results]]
    ELSE [exc |-> exc, ret |-> None]

\* call_sql_agent, run_sql_agent having raised exc or returned result: what
\* the tool raises and returns
call_sql_agent(exc, result) ==
    IF exc = "None"
    THEN [exc |-> "None",
          ret |-> [status |-> "success", message |-> result.message,
                   sql_query |-> result.sql_query,
                   data_summary |-> result.data_summary,
                   results |-> result.results]]
    ELSE [exc |-> "None",
          ret |-> [status |-> "error",
                   message |-> "SQL agent error: " \o str_of(exc),
                   sql_query |-> None, data_summary |-> None,
                   results |-> None]]

\* call_viz_agent, run_viz_agent having raised exc or returned result
call_viz_agent(exc, result) ==
    IF exc = "None"
    THEN [exc |-> "None",
          ret |-> [status |-> "success", message |-> result.message,
                   chart_spec |-> result.chart_spec,
                   chart_type |-> result.chart_type]]
    ELSE [exc |-> "None",
          ret |-> [status |-> "error",
                   message |-> "Visualization agent error: " \o str_of(exc),
                   chart_spec |-> None, chart_type |-> None]]

\* no tool of the orchestrator has returned yet
NoToolCall == [tool |-> None, raised |-> "None", exc |-> "None", ret |-> None]

\* sizes of the model's responses, in tokens
TokenSamples == {1000, 20000}

\* ----------------------------------------------------------------- state
VARIABLES
    now,                    \* datetime.now(), in ticks
    _ip_usage,              \* auth._ip_usage
    _conversation_trackers, \* routes._conversation_trackers
    constructed,            \* conversation id of every ConversationTracker()
                            \* chat has built, in order
    req,                    \* the requests in flight
    tracker,                \* a ConversationTracker held by a direct caller
    usage_inputs,           \* the usage_info dicts that caller will pass
    applied,                \* indices of usage_inputs already passed
    check_result,           \* outcome of that caller's last check_limits
    summary,                \* value of that caller's last get_usage_summary
    db_executed,            \* the queries passed to db_client.execute, in order
    environ,                \* os.environ
    sync,                   \* the run of sync_motherduck_background
    agent_run,              \* the Agent.run call in progress
    tool_called,            \* outcome of the last call_sql_agent or
                            \* call_viz_agent: what the specialist raised, and
                            \* what the tool raised and returned
    sql_returned            \* outcome of the last execute_sql_query: what it
                            \* raised, returned and passed to the database,
                            \* and what the database did with it

vars == <<now, _ip_usage, _conversation_trackers, constructed, req,
          tracker, usage_inputs, applied, check_result, summary,
          db_executed, sql_returned, environ, sync, agent_run, tool_called>>

gate_vars == <<now, _ip_usage, _conversation_trackers, constructed, req>>
tracker_vars == <<tracker, usage_inputs, applied, check_result, summary>>
aux_vars == <<db_executed, sql_returned, environ, sync, agent_run, tool_called>>
agent_vars == <<agent_run, tool_called>>
tool_vars == <<db_executed, sql_returned>>

\* the state outside the request gate and the stand-alone tracker, at start
InitAux ==
    /\ db_executed = <<>>
    /\ sql_returned = [exc |-> "None", executed |-> <<>>, ret |-> NoQueryReturn,
                       db |-> NoDbCall]
    /\ environ = [n \in EnvNames |-> None]
    /\ sync = IdleSync
    /\ agent_run = IdleRun
    /\ tool_called = NoToolCall

\* ---------------------------------------------------------------- requests
Reqs == {"r1", "r2"}

Endpoints == {"usage", "chat"}

\* Authorization header values: absent, empty, the admin credential, a wrong
\* key, the secret without its scheme
Authorizations == {None, "", bearer_admin_api_key, "Bearer wrong-key", "admin-secret"}

\* request.client: a host, or None
Clients == {"1.2.3.4", None}

\* ChatRequest.conversation_id: absent, empty, chosen by the caller, or an
\* id generated for an earlier request
ConversationIds == {None, "", "conv-1"} \cup GeneratedIds

IdleReq ==
    [pc |-> "idle", endpoint |-> None, authorization |-> None, client |-> None,
     user |-> NoUser, request_conversation_id |-> None,
     conversation_id |-> None, tracker |-> NoTracker,
     exc |-> "None", response |-> NoResponse]

\* ids already handed out or registered: uuid4 does not repeat them
TakenIds ==
    (DOMAIN _conversation_trackers) \cup {req[r].conversation_id : r \in Reqs}

Init ==
    /\ now = 0
    /\ _ip_usage = EmptyDict
    /\ _conversation_trackers = EmptyDict
    /\ constructed = <<>>
    /\ req = [r \in Reqs |-> IdleReq]
    /\ tracker = ConversationTracker
    /\ usage_inputs = <<>>
    /\ applied = {}
    /\ check_result = "not called"
    /\ summary = NoSummary
    /\ InitAux

\* datetime.now() moves on
Tick ==
    /\ now < MaxTime
    /\ now' = now + 1
    /\ UNCHANGED <<_ip_usage, _conversation_trackers, constructed, req>>
    /\ UNCHANGED tracker_vars
    /\ UNCHANGED aux_vars

\* GET /usage: the dependency get_current_user, then get_usage.  Neither
\* awaits, so the request runs in one piece.
UsageRequest(r, authorization, client) ==
    /\ req[r].pc = "idle"
    /\ LET cu == get_current_user(authorization, client, _ip_usage, now)
           got == get_usage(cu.user, cu.usage, now)
           base == [IdleReq EXCEPT !.pc = "done", !.endpoint = "usage",
                                   !.authorization = authorization,
                                   !.client = client, !.user = cu.user]
       IN  IF cu.exc # "None"
           THEN /\ _ip_usage' = cu.usage
                /\ req' = [req EXCEPT ![r] = [base EXCEPT !.exc = cu.exc,
                              !.response =
                              unhandled(cu.exc, cu.status_code, message(cu.exc))]]
           ELSE /\ _ip_usage' = got.usage
                /\ req' = [req EXCEPT ![r] = [base EXCEPT !.response = got.ret]]
    /\ UNCHANGED <<now, _conversation_trackers, constructed>>
    /\ UNCHANGED tracker_vars
    /\ UNCHANGED aux_vars

\* POST /chat up to the await: the dependency get_current_user, then chat
\* until it calls run_orchestrator and is suspended.
ChatBegin(r, authorization, client, conversation_id) ==
    /\ req[r].pc = "idle"
    /\ LET cu == get_current_user(authorization, client, _ip_usage, now)
           base == [IdleReq EXCEPT !.endpoint = "chat",
                                   !.authorization = authorization,
                                   !.client = client, !.user = cu.user,
                                   !.request_conversation_id = conversation_id]
       IN  /\ _ip_usage' = cu.usage
           /\ IF cu.exc # "None"
              THEN /\ req' = [req EXCEPT ![r] = [base EXCEPT !.pc = "done",
                                 !.exc = cu.exc,
                                 !.response = unhandled(cu.exc, cu.status_code,
                                                        message(cu.exc))]]
                   /\ UNCHANGED <<_conversation_trackers, constructed>>
              ELSE \E id \in IF Truthy(conversation_id) THEN {conversation_id}
                             ELSE GeneratedIds \ TakenIds :
                      LET got == chat_get_tracker(_conversation_trackers,
                                                  constructed, cu.user, id)
                      IN  /\ _conversation_trackers' = got.trackers
                          /\ constructed' = got.constructed
                          /\ req' = [req EXCEPT ![r] =
                                        [base EXCEPT !.pc = "awaiting",
                                                     !.conversation_id = id,
                                                     !.tracker = got.tracker]]
    /\ UNCHANGED now
    /\ UNCHANGED tracker_vars
    /\ UNCHANGED aux_vars

\* POST /chat from the await on: run_orchestrator returns or raises, the query
\* is recorded, the response is built.
ChatEnd(r) ==
    /\ req[r].pc = "awaiting"
    /\ \E exc \in run_orchestrator_raises :
          /\ _ip_usage' = chat_record(_ip_usage, req[r].user, exc, now)
          /\ req' = [req EXCEPT ![r].pc = "done",
                                ![r].exc = exc,
                                ![r].response =
                                    IF exc = "None"
                                    THEN ChatResponse(req[r].conversation_id)
                                    ELSE chat_except(exc)]
    /\ UNCHANGED <<now, _conversation_trackers, constructed>>
    /\ UNCHANGED tracker_vars
    /\ UNCHANGED aux_vars

\* the response has been sent; the slot takes the next request
Forget(r) ==
    /\ req[r].pc = "done"
    /\ req' = [req EXCEPT ![r] = IdleReq]
    /\ UNCHANGED <<now, _ip_usage, _conversation_trackers, constructed>>
    /\ UNCHANGED tracker_vars
    /\ UNCHANGED aux_vars

\* usage reported for a registered conversation: add_usage on its tracker
ReportedSamples == {[requests |-> 5, tokens |-> 75000, tool_calls |-> 5]}

ReportUsage(c, usage_info) ==
    /\ c \in DOMAIN _conversation_trackers
    /\ _conversation_trackers[c].total_requests
          + DictGet(usage_info, "requests", 0) <= MaxReported
    /\ _conversation_trackers' =
          [_conversation_trackers EXCEPT ![c] = add_usage(@, usage_info)]
    /\ UNCHANGED <<now, _ip_usage, constructed, req>>
    /\ UNCHANGED tracker_vars
    /\ UNCHANGED aux_vars

\* Requests one after another, from every kind of caller.
Next ==
    \/ \E a \in Authorizations, c \in Clients : UsageRequest("r1", a, c)
    \/ \E a \in Authorizations, c \in Clients, id \in ConversationIds :
          ChatBegin("r1", a, c, id)
    \/ ChatEnd("r1")
    \/ Forget("r1")
    \/ \E c \in ConversationIds \ {None, ""}, u \in ReportedSamples :
          ReportUsage(c, u)

Spec == Init /\ [][Next]_vars

\* Concurrent anonymous requests from one origin, with time passing.
NextQuota ==
    \/ Tick
    \/ \E r \in Reqs : UsageRequest(r, None, "1.2.3.4")
    \/ \E r \in Reqs : ChatBegin(r, None, "1.2.3.4", "conv-1")
    \/ \E r \in Reqs : ChatEnd(r)
    \/ \E r \in Reqs : Forget(r)

SpecQuota == Init /\ [][NextQuota]_vars

\* Anonymous requests one after another from two origins, with time passing.
NextOrigins ==
    \/ Tick
    \/ \E c \in Clients : UsageRequest("r1", None, c)
    \/ \E c \in Clients : ChatBegin("r1", None, c, "conv-1")
    \/ ChatEnd("r1")
    \/ Forget("r1")

SpecOrigins == Init /\ [][NextOrigins]_vars

\* ------------------------------------------- a tracker driven by direct calls
InitTracker ==
    /\ now = 0
    /\ _ip_usage = EmptyDict
    /\ _conversation_trackers = EmptyDict
    /\ constructed = <<>>
    /\ req = [r \in Reqs |-> IdleReq]
    /\ tracker = ConversationTracker
    /\ usage_inputs \in UNION {[1..n -> UsageSamples] : n \in 0..MaxSamples}
    /\ applied = {}
    /\ check_result = "not called"
    /\ summary = NoSummary
    /\ InitAux

\* tracker.add_usage(usage_inputs[i]); the calls are made in any order
AddUsage(i) ==
    /\ i \in (1..Len(usage_inputs)) \ applied
    /\ tracker' = add_usage(tracker, usage_inputs[i])
    /\ applied' = applied \cup {i}
    /\ check_result' = "not called"
    /\ summary' = NoSummary
    /\ UNCHANGED usage_inputs
    /\ UNCHANGED gate_vars
    /\ UNCHANGED aux_vars

\* tracker.check_limits()
CheckLimits ==
    /\ check_result' = check_limits(tracker)
    /\ UNCHANGED <<tracker, usage_inputs, applied, summary>>
    /\ UNCHANGED gate_vars
    /\ UNCHANGED aux_vars

\* tracker.get_usage_summary()
GetUsageSummary ==
    /\ summary' = get_usage_summary(tracker)
    /\ UNCHANGED <<tracker, usage_inputs, applied, check_result>>
    /\ UNCHANGED gate_vars
    /\ UNCHANGED aux_vars

NextTracker ==
    \/ \E i \in 1..MaxSamples : AddUsage(i)
    \/ CheckLimits
    \/ GetUsageSummary

SpecTracker == InitTracker /\ [][NextTracker]_vars

\* ------------------------------------------------- execute_sql_query called
\* await execute_sql_query(sql, db_client), with db_client.execute behaving as
\* db when it is reached
ExecuteSqlQuery(sql, db) ==
    LET r == execute_sql_query(sql, db)
    IN  /\ Len(db_executed) + Len(r.executed) <= MaxExecuted
        /\ db_executed' = db_executed \o r.executed
        /\ sql_returned' = [exc |-> r.exc, executed |-> r.executed, ret |-> r.ret,
                             db |-> IF r.executed # <<>> THEN db ELSE NoDbCall]
        /\ UNCHANGED gate_vars
        /\ UNCHANGED tracker_vars
        /\ UNCHANGED <<environ, sync>>
        /\ UNCHANGED agent_vars

NextSql ==
    \E sql \in SqlSamples, db \in DbOutcomes : ExecuteSqlQuery(sql, db)

SpecSql == Init /\ [][NextSql]_vars

\* --------------------------------------------- the start-up sync of main.py
InitSync ==
    /\ now = 0
    /\ _ip_usage = EmptyDict
    /\ _conversation_trackers = EmptyDict
    /\ constructed = <<>>
    /\ req = [r \in Reqs |-> IdleReq]
    /\ tracker = ConversationTracker
    /\ usage_inputs = <<>>
    /\ applied = {}
    /\ check_result = "not called"
    /\ summary = NoSummary
    /\ db_executed = <<>>
    /\ sql_returned = [exc |-> "None", executed |-> <<>>, ret |-> NoQueryReturn,
                       db |-> NoDbCall]
    /\ environ \in [EnvNames -> UNION {EnvValues[n] : n \in EnvNames}]
    /\ \A n \in EnvNames : environ[n] \in EnvValues[n]
    /\ sync = IdleSync
    /\ agent_run = IdleRun
    /\ tool_called = NoToolCall

\* await sync_motherduck_background(), up to its await of asyncio.to_thread
SyncBegin ==
    /\ sync.pc = "idle"
    /\ LET r == sync_motherduck_background(environ)
       IN  sync' = [sync EXCEPT !.pc = IF r.returned THEN "done" ELSE "in_thread",
                                !.calls = r.calls]
    /\ UNCHANGED <<environ, db_executed, sql_returned>>
    /\ UNCHANGED agent_vars
    /\ UNCHANGED gate_vars
    /\ UNCHANGED tracker_vars

\* sync_from_motherduck returns or raises in its thread, and
\* sync_motherduck_background ends
SyncEnd(thread_exc) ==
    /\ sync.pc = "in_thread"
    /\ LET r == sync_motherduck_background_except(thread_exc)
       IN  sync' = [sync EXCEPT !.pc = "done", !.thread_exc = thread_exc,
                                !.exc = r.exc, !.logged_error = r.logged_error]
    /\ UNCHANGED <<environ, db_executed, sql_returned>>
    /\ UNCHANGED agent_vars
    /\ UNCHANGED gate_vars
    /\ UNCHANGED tracker_vars

NextSync ==
    \/ SyncBegin
    \/ \E thread_exc \in {"None", "Exception"} : SyncEnd(thread_exc)

SpecSync == InitSync /\ [][NextSync]_vars

\* ------------------------------------------------------- the agents' runs
\* run_orchestrator, run_sql_agent or run_viz_agent calls its agent's run
AgentRun(role) ==
    /\ agent_run.pc = "idle"
    /\ agent_run' = [IdleRun EXCEPT !.role = role, !.pc = "running",
                                    !.usage_limits = usage_limits_passed(role)]
    /\ UNCHANGED tool_called
    /\ UNCHANGED <<environ, sync>>
    /\ UNCHANGED tool_vars
    /\ UNCHANGED gate_vars
    /\ UNCHANGED tracker_vars

\* the running agent makes a request to the model
ModelRequest(tokens) ==
    /\ agent_run.pc = "running"
    /\ agent_run.requests < MaxRequests
    /\ agent_run' = model_request(agent_run, tokens)
    /\ UNCHANGED tool_called
    /\ UNCHANGED <<environ, sync>>
    /\ UNCHANGED tool_vars
    /\ UNCHANGED gate_vars
    /\ UNCHANGED tracker_vars

\* the run ends after a response: with an output, or with an error of the
\* model
AgentRunEnd(exc) ==
    /\ agent_run.pc = "running"
    /\ agent_run.requests >= 1
    /\ agent_run' = [agent_run EXCEPT !.pc = "done", !.exc = exc]
    /\ UNCHANGED tool_called
    /\ UNCHANGED <<environ, sync>>
    /\ UNCHANGED tool_vars
    /\ UNCHANGED gate_vars
    /\ UNCHANGED tracker_vars

\* run_sql_agent is over and call_sql_agent returns
CallSqlAgent(result) ==
    /\ agent_run.pc = "done"
    /\ agent_run.role = "sql"
    /\ LET r == call_sql_agent(agent_run.exc, result)
       IN  tool_called' = [tool |-> "call_sql_agent", raised |-> agent_run.exc,
                           exc |-> r.exc, ret |-> r.ret]
    /\ agent_run' = IdleRun
    /\ UNCHANGED <<environ, sync>>
    /\ UNCHANGED tool_vars
    /\ UNCHANGED gate_vars
    /\ UNCHANGED tracker_vars

\* run_viz_agent is over and call_viz_agent returns
CallVizAgent(result) ==
    /\ agent_run.pc = "done"
    /\ agent_run.role = "viz"
    /\ LET r == call_viz_agent(agent_run.exc, result)
       IN  tool_called' = [tool |-> "call_viz_agent", raised |-> agent_run.exc,
                           exc |-> r.exc, ret |-> r.ret]
    /\ agent_run' = IdleRun
    /\ UNCHANGED <<environ, sync>>
    /\ UNCHANGED tool_vars
    /\ UNCHANGED gate_vars
    /\ UNCHANGED tracker_vars

\* run_orchestrator is over
RunOrchestratorEnd ==
    /\ agent_run.pc = "done"
    /\ agent_run.role = "orchestrator"
    /\ agent_run' = IdleRun
    /\ UNCHANGED tool_called
    /\ UNCHANGED <<environ, sync>>
    /\ UNCHANGED tool_vars
    /\ UNCHANGED gate_vars
    /\ UNCHANGED tracker_vars

NextAgents ==
    \/ \E role \in Roles : AgentRun(role)
    \/ \E tokens \in TokenSamples : ModelRequest(tokens)
    \/ \E exc \in {"None", "Exception"} : AgentRunEnd(exc)
    \/ \E result \in SQLAgentResponses : CallSqlAgent(result)
    \/ \E result \in VizAgentResponses : CallVizAgent(result)
    \/ RunOrchestratorEnd

SpecAgents == Init /\ [][NextAgents]_vars

\* ==================================================================== claims

\* whether a tracker has a total at or above its ceiling
AtCeiling(t) ==
    \/ t.total_requests >= MAX_REQUESTS
    \/ t.total_tokens >= MAX_TOKENS
    \/ t.total_tool_calls >= MAX_TOOL_CALLS

\* C1: check_limits raises RateLimitError exactly when some cumulative total
\* has reached its ceiling: a total equal to the ceiling raises, and with all
\* three totals below their ceilings the call returns.
C1_CheckLimitsRaisesAtCeiling ==
    check_result # "not called" =>
        /\ (check_result # "None") <=> AtCeiling(tracker)
        /\ (/\ tracker.total_requests <= MAX_REQUESTS - 1
            /\ tracker.total_tokens <= MAX_TOKENS - 1
            /\ tracker.total_tool_calls <= MAX_TOOL_CALLS - 1) => check_result = "None"

\* C1 witness: check_limits has raised on a tracker whose request total equals
\* the ceiling while the other two totals are below theirs.
C1_Witness ==
    /\ check_result \notin {"not called", "None"}
    /\ tracker.total_requests = MAX_REQUESTS
    /\ tracker.total_tokens < MAX_TOKENS
    /\ tracker.total_tool_calls < MAX_TOOL_CALLS

\* field-wise sum of the samples with index in S, a missing key counting 0
RECURSIVE SumOf(_, _)
SumOf(key, S) ==
    IF S = {} THEN 0
    ELSE LET i == CHOOSE x \in S : TRUE
             v == IF key \in DOMAIN usage_inputs[i] THEN usage_inputs[i][key] ELSE 0
         IN  v + SumOf(key, S \ {i})

\* C10: after any add_usage calls on a fresh tracker, made in any order, each
\* total is the sum of that field over the samples passed, a missing key
\* counting as zero.
C10_TotalsAreFieldwiseSums ==
    /\ tracker.total_requests = SumOf("requests", applied)
    /\ tracker.total_tokens = SumOf("tokens", applied)
    /\ tracker.total_tool_calls = SumOf("tool_calls", applied)

\* C10 witness: three or more samples have all been passed, one of them without
\* a "tokens" key and one without a "requests" key, and the totals are not zero.
C10_Witness ==
    /\ Len(usage_inputs) >= 3
    /\ applied = 1..Len(usage_inputs)
    /\ \E i \in applied : "tokens" \notin DOMAIN usage_inputs[i]
    /\ \E i \in applied : "requests" \notin DOMAIN usage_inputs[i]
    /\ tracker.total_tokens > 0
    /\ tracker.total_requests > 0

\* the anonymous origins a request can come from
Origins == {client_ip(c) : c \in Clients}

\* timestamps stored for an origin ("ip not in _ip_usage" gives none)
Queries(usage, ip) == IF ip \in DOMAIN usage THEN usage[ip].queries ELSE <<>>

\* how many of an origin's stored timestamps are less than one hour old
InWindow(ip) ==
    Cardinality({i \in 1..Len(Queries(_ip_usage, ip)) :
                    now - Queries(_ip_usage, ip)[i] < HOUR})

C3_QuotaWindow ==
    \A ip \in Origins :
        LET qs == Queries(_ip_usage, ip)
            chk == check_ip_rate_limit(_ip_usage, ip, now)
        IN  /\ InWindow(ip) >= queries_per_hour => chk.exc = "DemoLimitError"
            /\ (\A i \in 1..Len(qs) : now - qs[i] > HOUR) =>
                  /\ chk.exc = "None"
                  /\ chk.ret.queries_used = 0
                  /\ chk.ret.queries_remaining = queries_per_hour

\* C3 witness: an origin has 6 recorded queries, all of them now more than an
\* hour old, and a request of that origin refused while they were fresh is
\* still on record.
C3_Witness ==
    \E ip \in Origins, r \in Reqs :
        /\ Len(Queries(_ip_usage, ip)) >= queries_per_hour
        /\ \A i \in 1..Len(Queries(_ip_usage, ip)) :
              now - Queries(_ip_usage, ip)[i] > HOUR
        /\ req[r].pc = "done"
        /\ req[r].exc = "DemoLimitError"
        /\ client_ip(req[r].client) = ip

UsageReport(usage, ip, t) == get_usage_info_for_ip(usage, ip, t).ret

\* C5: a POST /chat whose pipeline call raises records no query: the step that
\* ends it leaves _ip_usage as it was, and the step that began it added no
\* timestamp and left every origin's usage report as it was.
C5_FailedPipelineLeavesQuota ==
    [][\A r \in Reqs :
         /\ (req[r].pc = "awaiting" /\ req'[r].pc = "done"
                                    /\ req'[r].exc # "None") =>
                _ip_usage' = _ip_usage
         /\ (req[r].pc = "idle" /\ req'[r].endpoint = "chat") =>
                \A ip \in Origins :
                    /\ UsageReport(_ip_usage', ip, now) = UsageReport(_ip_usage, ip, now)
                    /\ Len(Queries(_ip_usage', ip)) <= Len(Queries(_ip_usage, ip))]_vars

\* C5 witness: two anonymous POST /chat of one origin have both ended in a
\* pipeline failure, and the origin has a query on record from before.
C5_Witness ==
    \E ip \in Origins :
        /\ Len(Queries(_ip_usage, ip)) = 1
        /\ \A r \in Reqs : /\ req[r].pc = "done"
                           /\ req[r].endpoint = "chat"
                           /\ req[r].exc = "Exception"
                           /\ req[r].response.status = 500
                           /\ req[r].user = User(FALSE, ip)

C11_FirstCeilingReported ==
    check_result # "not called" =>
        /\ tracker.total_requests >= MAX_REQUESTS =>
              check_result = "request limit exceeded"
        /\ check_result = "token limit exceeded" =>
              /\ tracker.total_requests < MAX_REQUESTS
              /\ tracker.total_tokens >= MAX_TOKENS
        /\ check_result = "tool call limit exceeded" =>
              /\ tracker.total_requests < MAX_REQUESTS
              /\ tracker.total_tokens < MAX_TOKENS
              /\ tracker.total_tool_calls >= MAX_TOOL_CALLS

\* C11 witness: with the token and tool-call totals both at their ceilings and
\* the request total below its own, check_limits has reported the token
\* failure.
C11_Witness ==
    /\ check_result = "token limit exceeded"
    /\ tracker.total_requests < MAX_REQUESTS
    /\ tracker.total_tokens >= MAX_TOKENS
    /\ tracker.total_tool_calls >= MAX_TOOL_CALLS

\* how many ConversationTracker objects chat has built for a conversation id
Built(c) == Cardinality({i \in 1..Len(constructed) : constructed[i] = c})

\* C12: however concurrent anonymous POST /chat requests with one conversation
\* id interleave, at most one ConversationTracker is ever built for that id,
\* and every such request holds that one tracker, the one stored in
\* _conversation_trackers.
C12_OneTrackerPerConversation ==
    \A c \in ConversationIds \ {None} :
        /\ Built(c) <= 1
        /\ \A r \in Reqs :
              (req[r].conversation_id = c /\ req[r].user.tier = "demo") =>
                  /\ c \in DOMAIN _conversation_trackers
                  /\ req[r].tracker # NoTracker
                  /\ req[r].tracker = tracker_id(constructed, c)
        /\ \A r1, r2 \in Reqs :
              (/\ req[r1].conversation_id = c /\ req[r1].user.tier = "demo"
               /\ req[r2].conversation_id = c /\ req[r2].user.tier = "demo") =>
                  req[r1].tracker = req[r2].tracker

\* C12 witness: two anonymous POST /chat with the same conversation id are both
\* waiting for the pipeline, the second having started while the first waited,
\* and one tracker has been built.
C12_Witness ==
    /\ \A r \in Reqs : /\ req[r].pc = "awaiting"
                       /\ req[r].conversation_id = "conv-1"
                       /\ req[r].user.tier = "demo"
                       /\ req[r].tracker = 1
    /\ constructed = <<"conv-1">>

C14_RejectedBeforePipeline ==
    [][\A r \in Reqs :
         /\ (req[r].pc = "idle" /\ req'[r].endpoint = "chat") =>
               LET q == req'[r]
                   ip == client_ip(q.client)
                   bad == Truthy(q.authorization) /\ q.authorization # bearer_admin_api_key
                   over == ~Truthy(q.authorization) /\ InWindow(ip) >= queries_per_hour
               IN  /\ q.pc = "awaiting" =>
                         /\ ~bad /\ ~over
                         /\ q.exc = "None"
                         /\ q.user \in {User(TRUE, None), User(FALSE, ip)}
                   /\ (bad \/ over) =>
                         /\ q.pc = "done"
                         /\ q.response.status \notin {0, 200}
                         /\ _conversation_trackers' = _conversation_trackers
                         /\ constructed' = constructed
                         /\ \A o \in Origins :
                               Len(Queries(_ip_usage', o)) <= Len(Queries(_ip_usage, o))
         /\ req[r].pc = "done" => req'[r].pc # "awaiting"]_vars

\* C14 witness: an anonymous POST /chat without conversation id has been refused
\* for quota with 6 queries of its origin on record, and the only tracker
\* registered is the one of the earlier conversation.
C14_Witness ==
    \E r \in Reqs :
        /\ req[r].pc = "done"
        /\ req[r].endpoint = "chat"
        /\ req[r].exc = "DemoLimitError"
        /\ req[r].tracker = NoTracker
        /\ Len(Queries(_ip_usage, client_ip(req[r].client))) = queries_per_hour
        /\ DOMAIN _conversation_trackers = {"conv-1"}
        /\ constructed = <<"conv-1">>

\* C15: chat's except clauses map a RateLimitError to 429 and every exception
\* the pipeline call raises to 500 with the exception's message; a POST /chat
\* whose pipeline call raised is answered accordingly and never with 200.
C15_PipelineFailureMapping ==
    /\ chat_except("RateLimitError") = Response(429, message("RateLimitError"))
    /\ \A e \in run_orchestrator_raises \ {"None"} :
          chat_except(e) = Response(500, message(e))
    /\ \A r \in Reqs :
          (/\ req[r].pc = "done" /\ req[r].endpoint = "chat"
           /\ req[r].conversation_id # None /\ req[r].exc # "None") =>
              /\ req[r].response.status =
                    IF req[r].exc = "RateLimitError" THEN 429 ELSE 500
              /\ req[r].response.detail = message(req[r].exc)
              /\ req[r].response.conversation_id = None

\* C15 witness: a POST /chat whose pipeline call raised has been answered 500
\* with the message of the exception.
C15_Witness ==
    \E r \in Reqs :
        /\ req[r].pc = "done"
        /\ req[r].endpoint = "chat"
        /\ req[r].conversation_id # None
        /\ req[r].exc = "Exception"
        /\ req[r].response = Response(500, message("Exception"))

C17_TotalsNeverDecrease ==
    [][/\ tracker'.total_requests >= tracker.total_requests
       /\ tracker'.total_tokens >= tracker.total_tokens
       /\ tracker'.total_tool_calls >= tracker.total_tool_calls
       /\ applied' = applied => tracker' = tracker]_vars

\* C17 witness: every sample of a sequence of three has been added, at least
\* one of them with tool calls, and check_limits and get_usage_summary have
\* both been called since.
C17_Witness ==
    /\ Len(usage_inputs) = 3
    /\ applied = 1..3
    /\ tracker.total_tool_calls > 0
    /\ check_result # "not called"
    /\ summary # NoSummary

\* C18: the summary get_usage_summary returns has, for requests, tokens and
\* tool_calls, used = the tracker's current total, limit = the ceiling and
\* remaining = limit - used, which is below zero when the total is above the
\* ceiling.
C18_SummaryReportsRemaining ==
    summary # NoSummary =>
        /\ summary.requests.used = tracker.total_requests
        /\ summary.requests.limit = MAX_REQUESTS
        /\ summary.requests.remaining + summary.requests.used = MAX_REQUESTS
        /\ summary.tokens.used = tracker.total_tokens
        /\ summary.tokens.limit = MAX_TOKENS
        /\ summary.tokens.remaining + summary.tokens.used = MAX_TOKENS
        /\ summary.tool_calls.used = tracker.total_tool_calls
        /\ summary.tool_calls.limit = MAX_TOOL_CALLS
        /\ summary.tool_calls.remaining + summary.tool_calls.used = MAX_TOOL_CALLS
        /\ tracker.total_requests > MAX_REQUESTS => summary.requests.remaining < 0
        /\ tracker.total_tokens > MAX_TOKENS => summary.tokens.remaining < 0
        /\ tracker.total_tool_calls > MAX_TOOL_CALLS => summary.tool_calls.remaining < 0

\* C18 witness: a summary has been returned for a tracker whose request and
\* tool-call totals are above their ceilings and whose token total is below
\* its own.
C18_Witness ==
    /\ summary # NoSummary
    /\ tracker.total_requests > MAX_REQUESTS
    /\ tracker.total_tool_calls > MAX_TOOL_CALLS
    /\ tracker.total_tokens < MAX_TOKENS
    /\ tracker.total_tokens > 0
    /\ summary.requests.remaining < 0

EntryOf(usage, ip) == IF ip \in DOMAIN usage THEN {usage[ip]} ELSE {}

\* the origin of the request that acts in a step
Acting(r) == client_ip(IF req'[r].pc = "idle" THEN req[r].client ELSE req'[r].client)

\* C20: the quota of one origin is independent of every other origin's:
\* check_ip_rate_limit, record_ip_query and get_usage_info_for_ip called for
\* an origin A leave the entry of any other origin B as it was, and so does
\* every step of a request of A; whether B is admitted, and what is reported
\* for B, is the same before and after those calls and is decided by B's own
\* timestamps less than an hour old.
C20_OriginsIndependent ==
    [][\A B \in Origins :
         /\ (\A r \in Reqs : req'[r] # req[r] => Acting(r) # B) =>
               EntryOf(_ip_usage', B) = EntryOf(_ip_usage, B)
         /\ check_ip_rate_limit(_ip_usage, B, now).exc =
               IF InWindow(B) >= queries_per_hour THEN "DemoLimitError" ELSE "None"
         /\ \A A \in Origins \ {B} :
               LET checked == check_ip_rate_limit(_ip_usage, A, now).usage
                   recorded == record_ip_query(_ip_usage, A, now)
                   reported == get_usage_info_for_ip(_ip_usage, A, now).usage
               IN  /\ EntryOf(checked, B) = EntryOf(_ip_usage, B)
                   /\ EntryOf(recorded, B) = EntryOf(_ip_usage, B)
                   /\ EntryOf(reported, B) = EntryOf(_ip_usage, B)
                   /\ \A u \in {checked, recorded, reported} :
                         /\ check_ip_rate_limit(u, B, now).exc =
                               check_ip_rate_limit(_ip_usage, B, now).exc
                         /\ check_ip_rate_limit(u, B, now).ret =
                               check_ip_rate_limit(_ip_usage, B, now).ret]_vars

\* C20 witness: more than an hour after the start one origin has 6 queries less
\* than an hour old, and a request of the other origin, on record since the
\* start, has been admitted and served at that time.
C20_Witness ==
    \E r \in Reqs :
        /\ InWindow("1.2.3.4") >= queries_per_hour
        /\ now > HOUR
        /\ "unknown" \in DOMAIN _ip_usage
        /\ _ip_usage["unknown"].first_seen = 0
        /\ Queries(_ip_usage, "unknown") = <<now>>
        /\ req[r].pc = "done"
        /\ req[r].client = None
        /\ req[r].exc = "None"
        /\ req[r].response.status = 200

\* how many of a sequence's elements satisfy a test, counted with repetitions
CountIf(seq, Test(_)) == Cardinality({i \in 1..Len(seq) : Test(seq[i])})

\* C21: check_ip_rate_limit keeps exactly the timestamps less than one hour
\* old: none of those it leaves stored is one hour old or older, every stored
\* timestamp less than one hour old is still there, in order, and only those
\* count toward the limit; a timestamp exactly one hour old is dropped.
C21_ExclusiveWindow ==
    \A ip \in Origins :
        LET qs == Queries(_ip_usage, ip)
            chk == check_ip_rate_limit(_ip_usage, ip, now)
            kept == Queries(chk.usage, ip)
            Fresh(q) == now - q < HOUR
            Edge(q) == now - q = HOUR
        IN  /\ \A i \in 1..Len(kept) : Fresh(kept[i])
            /\ Len(kept) = CountIf(qs, Fresh)
            /\ CountIf(kept, Edge) = 0
            /\ \A i \in 1..Len(kept) :
                  kept[i] = qs[Len(qs) - Len(kept) + i]
            /\ chk.exc = "None" => chk.ret.queries_used = CountIf(qs, Fresh)
            /\ (chk.exc = "DemoLimitError") <=> (CountIf(qs, Fresh) >= queries_per_hour)

\* C21 witness: an origin has 6 timestamps stored, the oldest exactly one hour
\* old and the other five less than an hour old, so that it is admitted with
\* 5 counted.
C21_Witness ==
    \E ip \in Origins :
        LET qs == Queries(_ip_usage, ip)
        IN  /\ Len(qs) = queries_per_hour
            /\ now - qs[1] = HOUR
            /\ \A i \in 2..Len(qs) : now - qs[i] < HOUR
            /\ check_ip_rate_limit(_ip_usage, ip, now).exc = "None"
            /\ check_ip_rate_limit(_ip_usage, ip, now).ret.queries_used = queries_per_hour - 1

\* the oldest of an origin's stored timestamps that is less than one hour old
OldestCounted(ip) ==
    LET qs == Queries(_ip_usage, ip)
        F == {qs[i] : i \in {j \in 1..Len(qs) : now - qs[j] < HOUR}}
    IN  CHOOSE q \in F : \A p \in F : q <= p

\* C27: the quota is a sliding window.  For an origin at the limit (6 stored
\* timestamps less than an hour old) and with no further query recorded,
\* check_ip_rate_limit refuses it at every instant before its oldest counted
\* timestamp is one hour old and admits it from that instant on.
C27_SlidingWindow ==
    \A ip \in Origins :
        InWindow(ip) = queries_per_hour =>
            \A t \in now..(now + HOUR) :
                check_ip_rate_limit(_ip_usage, ip, t).exc =
                    IF t - OldestCounted(ip) >= HOUR THEN "None" ELSE "DemoLimitError"

\* C27 witness: an origin is at the limit with counted timestamps of two
\* different ages, after the clock has moved; it is refused now and admitted
\* when the oldest of them is one hour old, while the newest is not yet.
C27_Witness ==
    \E ip \in Origins :
        LET qs == Queries(_ip_usage, ip)
        IN  /\ InWindow(ip) = queries_per_hour
            /\ now > 0
            /\ OldestCounted(ip) < qs[Len(qs)]
            /\ check_ip_rate_limit(_ip_usage, ip, now).exc = "DemoLimitError"
            /\ check_ip_rate_limit(_ip_usage, ip, OldestCounted(ip) + HOUR).exc = "None"
            /\ OldestCounted(ip) + HOUR - qs[Len(qs)] < HOUR

C29_TrackerByConversationIdAlone ==
    [][/\ \A c \in DOMAIN _conversation_trackers :
             /\ c \in DOMAIN _conversation_trackers'
             /\ tracker_id(constructed', c) = tracker_id(constructed, c)
       /\ \A c \in DOMAIN _conversation_trackers' :
             tracker_id(constructed', c) # NoTracker
       /\ \A c1, c2 \in DOMAIN _conversation_trackers' :
             c1 # c2 => tracker_id(constructed', c1) # tracker_id(constructed', c2)
       /\ \A r \in Reqs :
             (/\ req[r].pc = "idle" /\ req'[r].pc = "awaiting"
              /\ req'[r].user.tier = "demo") =>
                 req'[r].tracker = tracker_id(constructed', req'[r].conversation_id)
       /\ \A c \in ConversationIds \ {None, ""} :
             \A o1, o2 \in Origins :
                 chat_get_tracker(_conversation_trackers, constructed,
                                  User(FALSE, o1), c)
                   = chat_get_tracker(_conversation_trackers, constructed,
                                      User(FALSE, o2), c)]_vars

\* C29 witness: a request of the origin "unknown" holds the one tracker ever
\* built, registered under "conv-1", while the only queries on record are
\* those of the origin 1.2.3.4, whose served request therefore used the same
\* id and the same tracker.
C29_Witness ==
    \E r \in Reqs :
        /\ req[r].pc = "awaiting"
        /\ req[r].client = None
        /\ req[r].user = User(FALSE, "unknown")
        /\ req[r].conversation_id = "conv-1"
        /\ req[r].tracker = 1
        /\ constructed = <<"conv-1">>
        /\ Len(Queries(_ip_usage, "1.2.3.4")) >= 1
        /\ Len(Queries(_ip_usage, "unknown")) = 0

\* the sample queries that are SELECT statements free of the seven keywords
ReadOnlySelects ==
    { "SELECT 1 as test_column",
      "select name from t",
      "  \n SeLeCt * FROM t \t",
      "SELECTED",
      "SELECT * FROM nonexistent" }

\* C23: a call of execute_sql_query passes its query to db_client.execute, as
\* given and once, only if the trimmed, upper-cased query starts with SELECT
\* and contains none of DROP, DELETE, TRUNCATE, INSERT, UPDATE, ALTER, CREATE;
\* for every other query it returns a QueryError of type "validation" and
\* db_client.execute is not called.
C23_OnlyCleanSelectsReachDb ==
    /\ \A i \in 1..Len(db_executed) : db_executed[i] \in ReadOnlySelects
    /\ sql_returned.ret.class # None =>
          LET sql == sql_returned.ret.sql_query
              trimmed_upper == upper(strip(sql))
              clean == /\ startswith(trimmed_upper, "SELECT")
                       /\ \A k \in 1..Len(destructive_keywords) :
                             ~contains(trimmed_upper, destructive_keywords[k])
          IN  /\ clean <=> sql \in ReadOnlySelects
              /\ IF clean
                 THEN /\ sql_returned.executed = <<sql>>
                      /\ sql_returned.ret.error_type # "validation"
                 ELSE /\ sql_returned.executed = <<>>
                      /\ sql_returned.ret.class = "QueryError"
                      /\ sql_returned.ret.error_type = "validation"

\* C23 witness: a SELECT in mixed case with surrounding whitespace has been
\* passed to the database as given, and a SELECT that reads a column named
\* created_at has been turned down as a validation error.
C23_Witness ==
    /\ db_executed = <<"  \n SeLeCt * FROM t \t">>
    /\ sql_returned.ret.class = "QueryError"
    /\ sql_returned.ret.error_type = "validation"
    /\ sql_returned.ret.sql_query = "SELECT created_at FROM t"

\* C24: execute_sql_query never raises.  When db_client.execute raises, the
\* call returns the QueryError of type "execution" with the query as given and
\* the message of the exception; when it returns rows, the call returns the
\* QueryResult with those rows, rows_returned = their number and the columns
\* of the first row, both empty when there is no row.
C24_ExecutionOutcomeReturned ==
    /\ sql_returned.exc = "None"
    /\ sql_returned.executed # <<>> =>
          LET db == sql_returned.db
              ret == sql_returned.ret
              sql == sql_returned.executed[1]
          IN  IF db.exc # "None"
              THEN ret = QueryError(sql, db.message, "execution")
              ELSE /\ ret.class = "QueryResult"
                   /\ ret.sql_query = sql
                   /\ ret.results = db.rows
                   /\ ret.rows_returned = Len(db.rows)
                   /\ Len(db.rows) = 0 => ret.results = <<>> /\ ret.columns = <<>>
                   /\ Len(db.rows) > 0 =>
                         /\ Len(ret.columns) = Len(db.rows[1])
                         /\ \A i \in 1..Len(ret.columns) :
                               ret.columns[i] = db.rows[1][i][1]

\* C24 witness: the database has raised on the second query passed to it, and
\* the call has returned the execution error with that query and the
\* database's message.
C24_Witness ==
    /\ Len(db_executed) = 2
    /\ sql_returned.db.exc = "Exception"
    /\ sql_returned.exc = "None"
    /\ sql_returned.ret =
          QueryError("SELECT * FROM nonexistent", "Catalog Error", "execution")

\* C25: sync_motherduck_background lets no exception out.  With MOTHERDUCK_DB or
\* MOTHERDUCK_TOKEN not set (or empty) it ends without a call of
\* sync_from_motherduck; with both set it makes exactly one call, with those
\* two values and the source schema of MOTHERDUCK_SCHEMA, "dmt" when that is
\* not set; when the call raises, the error is logged and the function ends
\* normally.
C25_SyncNeverPropagates ==
    /\ sync.exc = "None"
    /\ sync.pc # "idle" =>
          IF \/ environ["MOTHERDUCK_DB"] \in {None, ""}
             \/ environ["MOTHERDUCK_TOKEN"] \in {None, ""}
          THEN sync.pc = "done" /\ sync.calls = <<>> /\ ~sync.logged_error
          ELSE /\ Len(sync.calls) = 1
               /\ sync.calls[1].motherduck_db = environ["MOTHERDUCK_DB"]
               /\ sync.calls[1].motherduck_token = environ["MOTHERDUCK_TOKEN"]
               /\ sync.calls[1].source_schema =
                     IF environ["MOTHERDUCK_SCHEMA"] = None THEN "dmt"
                     ELSE environ["MOTHERDUCK_SCHEMA"]
    /\ sync.pc = "done" => (sync.logged_error <=> sync.thread_exc # "None")

\* C25 witness: with both credentials set and MOTHERDUCK_SCHEMA not set, the
\* one call of sync_from_motherduck, made for schema "dmt", has raised, and the
\* function has ended with the error logged.
C25_Witness ==
    /\ sync.pc = "done"
    /\ environ["MOTHERDUCK_SCHEMA"] = None
    /\ Len(sync.calls) = 1
    /\ sync.calls[1].source_schema = "dmt"
    /\ sync.thread_exc = "Exception"
    /\ sync.logged_error
    /\ sync.exc = "None"

\* the budget rate_limits.py defines for each role
Budget(role) ==
    CASE role = "orchestrator" -> ORCHESTRATOR_LIMITS
      [] role = "sql" -> SQL_AGENT_LIMITS
      [] role = "viz" -> VIZ_AGENT_LIMITS

\* C26: no run of an agent goes beyond its role's budget: it makes no more
\* requests than the budget's request limit, and once its total tokens are
\* over the budget's token limit it has been stopped with a usage-limit error.
C26_RunWithinRoleBudget ==
    agent_run.pc # "idle" =>
        /\ agent_run.requests <= Budget(agent_run.role).request_limit
        /\ agent_run.total_tokens > Budget(agent_run.role).total_tokens_limit
              => (agent_run.pc = "done" /\ agent_run.exc = "UsageLimitExceeded")

\* C30: call_sql_agent and call_viz_agent raise nothing; when the specialist
\* run raised, the tool returns status "error" with every payload field None;
\* status "success" is returned only when the specialist run raised nothing.
C30_ToolsNeverPropagate ==
    tool_called.tool # None =>
        /\ tool_called.exc = "None"
        /\ tool_called.ret.status \in {"success", "error"}
        /\ tool_called.raised # "None" =>
              /\ tool_called.ret.status = "error"
              /\ IF tool_called.tool = "call_sql_agent"
                 THEN /\ tool_called.ret.sql_query = None
                      /\ tool_called.ret.data_summary = None
                      /\ tool_called.ret.results = None
                 ELSE /\ tool_called.ret.chart_spec = None
                      /\ tool_called.ret.chart_type = None
        /\ tool_called.ret.status = "success" => tool_called.raised = "None"

\* C30 witness: the visualization run was stopped by its usage limits, and
\* call_viz_agent returned a status "error" result.
C30_Witness ==
    /\ tool_called.tool = "call_viz_agent"
    /\ tool_called.raised = "UsageLimitExceeded"
    /\ tool_called.exc = "None"
    /\ tool_called.ret.status = "error"

====
